---- MODULE Spec2Model ----
(***************************************************************************)
(* Model of crates/cli/src/util/target.rs: the target registry, the triple *)
(* parser (TargetDetail::from), the workflow config table, the resolver    *)
(* (Target::new) and the serde serializers.                                *)
(*                                                                         *)
(* Rust strings are TLA+ strings; the only string primitives used are Len, *)
(* SubSeq and \o.  Option<T> is the empty tuple (None) or a 1-tuple        *)
(* (Some).  A call either returns a value or panics.                       *)
(***************************************************************************)
EXTENDS Integers, Sequences, FiniteSets, TLC

VARIABLES triple, config, pc, ret, out

vars == <<triple, config, pc, ret, out>>

-----------------------------------------------------------------------------
(* Bounds of the explored inputs.                                          *)

MaxFields == 5

MaxSetupLen == 5

-----------------------------------------------------------------------------
(* Option, call outcomes and string primitives.                            *)

None == <<>>

Some(x) == <<x>>

IsSome(o) == Len(o) = 1

Unwrap(o) == o[1]

Ok(v) == [ok |-> TRUE, val |-> v]

Panic(kind, msg) == [ok |-> FALSE, kind |-> kind, msg |-> msg]

Range(seq) == {seq[i] : i \in 1..Len(seq)}

CharAt(s, i) == SubSeq(s, i, i)

Min(S) == CHOOSE m \in S : \A k \in S : m <= k

Max(S) == CHOOSE m \in S : \A k \in S : m >= k

\* str::find: 1-based index of the first occurrence of pat in s, 0 if none.
Find(s, pat) ==
  LET hits == {i \in 1..(Len(s) - Len(pat) + 1) : SubSeq(s, i, i + Len(pat) - 1) = pat}
  IN  IF hits = {} THEN 0 ELSE Min(hits)

\* str::split: the pieces between successive leftmost, non-overlapping
\* occurrences of pat; a string without pat (the empty one too) is one piece.
RECURSIVE Split(_, _)
Split(s, pat) ==
  LET i == Find(s, pat)
  IN  IF i = 0
      THEN <<s>>
      ELSE <<SubSeq(s, 1, i - 1)>> \o Split(SubSeq(s, i + Len(pat), Len(s)), pat)

WhiteSpace == {" ", "\t", "\n", "\r"}

\* str::trim_start in place of str::trim.
Trim_Start(s) ==
  LET keep == {i \in 1..Len(s) : CharAt(s, i) \notin WhiteSpace}
  IN  IF keep = {} THEN "" ELSE SubSeq(s, Min(keep), Len(s))

\* str::trim: drop the leading and the trailing white space.
Trim(s) ==
  LET keep == {i \in 1..Len(s) : CharAt(s, i) \notin WhiteSpace}
  IN  IF keep = {} THEN "" ELSE SubSeq(s, Min(keep), Max(keep))

\* Vec indexing v[i] (zero-based) is in bounds iff i < v.len().
InBounds(v, i) == i < Len(v)

At(v, i) == v[i + 1]

\* slice::get (zero-based).
Get(v, i) == IF i < Len(v) THEN Some(v[i + 1]) ELSE None

IndexPanic(v, i) ==
  Panic("index", "index out of bounds: the len is " \o ToString(Len(v))
                 \o " but the index is " \o ToString(i))

-----------------------------------------------------------------------------
(* The registry.                                                           *)

\* AVAILABLE_TARGETS with a triple added that the config table does not know.
AVAILABLE_TARGETS_Unconfigured ==
  << "aarch64-apple-darwin",
     "aarch64-linux-android",
     "aarch64-unknown-linux-gnu",
     "aarch64-unknown-linux-musl",
     "aarch64-pc-windows-msvc",
     "x86_64-apple-darwin",
     "x86_64-pc-windows-msvc",
     "x86_64-unknown-linux-gnu",
     "x86_64-unknown-linux-musl",
     "x86_64-unknown-freebsd",
     "i686-pc-windows-msvc",
     "armv7-unknown-linux-gnueabihf",
     "armv7-linux-androideabi",
     "aarch64-unknown-freebsd" >>

AVAILABLE_TARGETS ==
  << "aarch64-apple-darwin",
     "aarch64-linux-android",
     "aarch64-unknown-linux-gnu",
     "aarch64-unknown-linux-musl",
     "aarch64-pc-windows-msvc",
     "x86_64-apple-darwin",
     "x86_64-pc-windows-msvc",
     "x86_64-unknown-linux-gnu",
     "x86_64-unknown-linux-musl",
     "x86_64-unknown-freebsd",
     "i686-pc-windows-msvc",
     "armv7-unknown-linux-gnueabihf",
     "armv7-linux-androideabi" >>

\* DEFAULT_TARGETS with the musl build in place of the gnu one.
DEFAULT_TARGETS_Musl ==
  << "x86_64-apple-darwin",
     "x86_64-pc-windows-msvc",
     "x86_64-unknown-linux-musl" >>

DEFAULT_TARGETS ==
  << "x86_64-apple-darwin",
     "x86_64-pc-windows-msvc",
     "x86_64-unknown-linux-gnu" >>

-----------------------------------------------------------------------------
(* NodeArch.                                                               *)

NodeArch ==
  {"x32", "x64", "ia32", "arm", "arm64", "mips", "mipsel", "ppc", "ppc64", "s390", "s390x"}

\* NodeArch::from_str without the "i686" arm.
NodeArchFromStr_NoI686(s) ==
  CASE s = "x32"     -> Some("x32")
    [] s = "x86_64"  -> Some("x64")
    [] s = "armv7"   -> Some("arm")
    [] s = "aarch64" -> Some("arm64")
    [] s = "mips"    -> Some("mips")
    [] s = "mipsel"  -> Some("mipsel")
    [] s = "ppc"     -> Some("ppc")
    [] s = "ppc64"   -> Some("ppc64")
    [] s = "s390"    -> Some("s390")
    [] s = "s390x"   -> Some("s390x")
    [] OTHER         -> None

\* NodeArch::from_str falling back to x64 instead of None.
NodeArchFromStr_DefaultX64(s) ==
  CASE s = "x32"     -> Some("x32")
    [] s = "x86_64"  -> Some("x64")
    [] s = "i686"    -> Some("ia32")
    [] s = "armv7"   -> Some("arm")
    [] s = "aarch64" -> Some("arm64")
    [] s = "mips"    -> Some("mips")
    [] s = "mipsel"  -> Some("mipsel")
    [] s = "ppc"     -> Some("ppc")
    [] s = "ppc64"   -> Some("ppc64")
    [] s = "s390"    -> Some("s390")
    [] s = "s390x"   -> Some("s390x")
    [] OTHER         -> Some("x64")

NodeArchFromStr(s) ==
  CASE s = "x32"     -> Some("x32")
    [] s = "x86_64"  -> Some("x64")
    [] s = "i686"    -> Some("ia32")
    [] s = "armv7"   -> Some("arm")
    [] s = "aarch64" -> Some("arm64")
    [] s = "mips"    -> Some("mips")
    [] s = "mipsel"  -> Some("mipsel")
    [] s = "ppc"     -> Some("ppc")
    [] s = "ppc64"   -> Some("ppc64")
    [] s = "s390"    -> Some("s390")
    [] s = "s390x"   -> Some("s390x")
    [] OTHER         -> None

NodeArchDisplay(a) ==
  CASE a = "x32"    -> "x86"
    [] a = "x64"    -> "x64"
    [] a = "ia32"   -> "ia32"
    [] a = "arm"    -> "arm"
    [] a = "arm64"  -> "arm64"
    [] a = "mips"   -> "mips"
    [] a = "mipsel" -> "mipsel"
    [] a = "ppc"    -> "ppc"
    [] a = "ppc64"  -> "ppc64"
    [] a = "s390"   -> "s390"
    [] a = "s390x"  -> "s390x"

\* as_github_action_arch answering with the display name.
as_github_action_arch_Display(a) == NodeArchDisplay(a)

as_github_action_arch(a) ==
  CASE a = "x32" -> "x86"
    [] a = "x64" -> "x64"
    [] OTHER     -> "x64"

NodeArchSerialize(a) == as_github_action_arch(a)

-----------------------------------------------------------------------------
(* NodePlatform: <<variant>> or <<"unknown", payload>>.                    *)

NodePlatformFromStr(s) ==
  CASE s = "darwin"  -> <<"darwin">>
    [] s = "freebsd" -> <<"freebsd">>
    [] s = "openbsd" -> <<"openbsd">>
    [] s = "windows" -> <<"win32">>
    [] OTHER         -> <<"unknown", s>>

\* Display for NodePlatform printing the variant name of unknown(s).
NodePlatformDisplay_VariantName(p) ==
  CASE p[1] = "darwin"  -> "darwin"
    [] p[1] = "freebsd" -> "freebsd"
    [] p[1] = "openbsd" -> "openbsd"
    [] p[1] = "win32"   -> "win32"
    [] p[1] = "unknown" -> "unknown"

NodePlatformDisplay(p) ==
  CASE p[1] = "darwin"  -> "darwin"
    [] p[1] = "freebsd" -> "freebsd"
    [] p[1] = "openbsd" -> "openbsd"
    [] p[1] = "win32"   -> "win32"
    [] p[1] = "unknown" -> p[2]

NodePlatformSerialize(p) == NodePlatformDisplay(p)

-----------------------------------------------------------------------------
(* TargetDetail.                                                           *)

\* The tuple (cpu, sys, abi): the zero-based indices read for cpu and sys,
\* and the abi.
\* The two-field branch reading the OS from the last field.
SelectParts_TwoFields(parts) ==
  IF Len(parts) = 2
  THEN [cpu |-> 0, sys |-> 1, abi |-> None]
  ELSE [cpu |-> 0, sys |-> 2, abi |-> Get(parts, 3)]

SelectParts(parts) ==
  IF Len(parts) = 2
  THEN [cpu |-> 0, sys |-> 2, abi |-> None]
  ELSE [cpu |-> 0, sys |-> 2, abi |-> Get(parts, 3)]

\* platform_abi with the architecture before the platform.
PlatformAbi_ArchFirst(platform, arch, abi) ==
  IF IsSome(abi)
  THEN NodeArchDisplay(arch) \o "-" \o NodePlatformDisplay(platform) \o "-" \o Unwrap(abi)
  ELSE NodeArchDisplay(arch) \o "-" \o NodePlatformDisplay(platform)

PlatformAbi(platform, arch, abi) ==
  IF IsSome(abi)
  THEN NodePlatformDisplay(platform) \o "-" \o NodeArchDisplay(arch) \o "-" \o Unwrap(abi)
  ELSE NodePlatformDisplay(platform) \o "-" \o NodeArchDisplay(arch)

TargetDetailFrom(t) ==
  LET parts == Split(t, "-")
      sel   == SelectParts(parts)
  IN  IF ~InBounds(parts, sel.cpu) THEN IndexPanic(parts, sel.cpu)
      ELSE IF ~InBounds(parts, sel.sys) THEN IndexPanic(parts, sel.sys)
      ELSE
        LET cpu      == At(parts, sel.cpu)
            sys      == At(parts, sel.sys)
            abi      == sel.abi
            platform == NodePlatformFromStr(sys)
            arch     == NodeArchFromStr(cpu)
        IN  IF ~IsSome(arch)
            THEN Panic("explicit", "unsupported cpu arch " \o cpu)
            ELSE Ok([platform_abi |-> PlatformAbi(platform, Unwrap(arch), abi),
                     arch         |-> Unwrap(arch),
                     platform     |-> platform,
                     abi          |-> abi])

\* #[derive(Serialize)]: the fields in declaration order, each through its
\* own serializer; an Option<String> is null (None) or the string.
TargetDetailSerialize(d) ==
  [platform_abi |-> d.platform_abi,
   arch         |-> NodeArchSerialize(d.arch),
   platform     |-> NodePlatformSerialize(d.platform),
   abi          |-> d.abi]

-----------------------------------------------------------------------------
(* GithubWorkflowConfig and the workflow config table.                     *)

GithubWorkflowConfig(host, docker_image, setup) ==
  [host |-> host, docker_image |-> docker_image, setup |-> setup]

GithubWorkflowConfigDefault == GithubWorkflowConfig("", None, None)

\* The serialized map: the entries <<key, value>> in emission order.
GithubWorkflowConfigSerialize(c) ==
  <<  <<"host", c.host>>  >>
  \o (IF IsSome(c.docker_image)
      THEN << <<"docker_image", Unwrap(c.docker_image)>> >>
      ELSE <<>>)
  \o (IF IsSome(c.setup)
      THEN LET pieces  == Split(Unwrap(c.setup), "&&")
               scripts == [i \in 1..Len(pieces) |-> Trim(pieces[i])]
           IN  << <<"setup", scripts>> >>
      ELSE <<>>)

TARGET_CONFIG_MAP ==
     "x86_64-apple-darwin" :> GithubWorkflowConfig("macos-latest", None, None)
  @@ "x86_64-pc-windows-msvc" :> GithubWorkflowConfig("windows-latest", None, None)
  @@ "i686-pc-windows-msvc" :> GithubWorkflowConfig("windows-latest", None, None)
  @@ "x86_64-unknown-linux-gnu" :>
       GithubWorkflowConfig("ubuntu-latest", Some("napi-rs/nodejs-rust:lts-debian"), None)
  @@ "x86_64-unknown-linux-musl" :>
       GithubWorkflowConfig("ubuntu-latest", Some("napi-rs/nodejs-rust:lts-alpine"), None)
  @@ "x86_64-unknown-freebsd" :> GithubWorkflowConfig("ubuntu-latest", None, None)
  @@ "aarch64-apple-darwin" :> GithubWorkflowConfig("macos-latest", None, None)
  @@ "aarch64-unknown-linux-gnu" :>
       GithubWorkflowConfig("ubuntu-latest", None,
         Some("sudo apt-get update && sudo apt-get install g++-aarch64-linux-gnu gcc-aarch64-linux-gnu -y"))
  @@ "aarch64-unknown-linux-musl" :>
       GithubWorkflowConfig("ubuntu-latest", Some("napi-rs/nodejs-rust:lts-alpine"), None)
  @@ "aarch64-pc-windows-msvc" :> GithubWorkflowConfig("windows-latest", None, None)
  @@ "aarch64-linux-android" :> GithubWorkflowConfig("ubuntu-latest", None, None)
  @@ "armv7-unknown-linux-gnueabihf" :>
       GithubWorkflowConfig("ubuntu-latest", None,
         Some("sudo apt-get update && sudo apt-get install gcc-arm-linux-gnueabihf g++-arm-linux-gnueabihf -y"))
  @@ "armv7-linux-androideabi" :> GithubWorkflowConfig("ubuntu-latest", None, None)

\* phf::Map::get: exact key equality.
MapGet(m, k) == IF k \in DOMAIN m THEN Some(m[k]) ELSE None

-----------------------------------------------------------------------------
(* Target.                                                                 *)

\* Target::new with unwrap_or_default() in place of unwrap().
TargetNew_OrDefault(t) ==
  LET detail == TargetDetailFrom(t)
  IN  IF ~detail.ok THEN detail
      ELSE LET cfg == MapGet(TARGET_CONFIG_MAP, t)
           IN  Ok([triple |-> t,
                   detail |-> detail.val,
                   github_workflow_config |->
                     IF IsSome(cfg) THEN Unwrap(cfg) ELSE GithubWorkflowConfigDefault])

TargetNew(t) ==
  LET detail == TargetDetailFrom(t)
  IN  IF ~detail.ok THEN detail
      ELSE LET cfg == MapGet(TARGET_CONFIG_MAP, t)
           IN  IF ~IsSome(cfg)
               THEN Panic("unwrap", "called Option::unwrap() on a None value")
               ELSE Ok([triple |-> t,
                        detail |-> detail.val,
                        github_workflow_config |-> Unwrap(cfg)])

TargetSerialize(x) ==
  [triple |-> x.triple,
   detail |-> TargetDetailSerialize(x.detail),
   github_workflow_config |-> GithubWorkflowConfigSerialize(x.github_workflow_config)]

-----------------------------------------------------------------------------
(* The explored inputs: every supported triple, every dash-joined string   *)
(* of at most MaxFields fields drawn per position from the sets below, the *)
(* bare OS names, and the table's configs plus configs whose setup is any  *)
(* string of at most MaxSetupLen characters over SetupAlphabet.            *)

ArchFields ==
  {"x32", "x86_64", "i686", "armv7", "aarch64", "mips", "mipsel", "ppc", "ppc64",
   "s390", "s390x", "", "x86", "arm64"}

VendorFields == {"", "unknown", "apple", "pc", "linux"}

OsFields == {"", "darwin", "linux", "windows", "freebsd", "openbsd", "win32", "android"}

AbiFields == {"", "gnu", "musl", "msvc"}

FieldChoices(k) ==
  CASE k = 1 -> ArchFields
    [] k = 2 -> VendorFields
    [] k = 3 -> OsFields
    [] OTHER -> AbiFields

RECURSIVE TriplesOfLen(_)
TriplesOfLen(n) ==
  IF n = 1
  THEN ArchFields
  ELSE {p \o "-" \o f : p \in TriplesOfLen(n - 1), f \in FieldChoices(n)}

TripleInputs ==
  Range(AVAILABLE_TARGETS) \cup OsFields \cup UNION {TriplesOfLen(n) : n \in 1..MaxFields}

SetupAlphabet == {"a", " ", "&"}

RECURSIVE StringsOfLen(_)
StringsOfLen(n) ==
  IF n = 0 THEN {""} ELSE {p \o c : p \in StringsOfLen(n - 1), c \in SetupAlphabet}

SetupInputs == UNION {StringsOfLen(n) : n \in 0..MaxSetupLen}

ConfigInputs ==
  {TARGET_CONFIG_MAP[k] : k \in DOMAIN TARGET_CONFIG_MAP}
  \cup {GithubWorkflowConfigDefault}
  \cup {GithubWorkflowConfig("h", d, Some(s)) : d \in {None, Some("img")}, s \in SetupInputs}

-----------------------------------------------------------------------------
(* The state machine: one input is drawn, one constructor is applied to    *)
(* it, and what it returned is serialized.                                 *)

\* A run exercises either a triple (with the default config at hand) or a
\* config (with the empty triple), never their product.
Init ==
  /\ triple \in TripleInputs
  /\ config \in ConfigInputs
  /\ triple = "" \/ config = GithubWorkflowConfigDefault
  /\ pc = "start"
  /\ ret = None
  /\ out = None

CallTargetDetailFrom ==
  /\ pc = "start"
  /\ ret' = TargetDetailFrom(triple)
  /\ pc' = "detail"
  /\ UNCHANGED <<triple, config, out>>

CallTargetNew ==
  /\ pc = "start"
  /\ ret' = TargetNew(triple)
  /\ pc' = "target"
  /\ UNCHANGED <<triple, config, out>>

CallNodePlatformFromStr ==
  /\ pc = "start"
  /\ ret' = Ok(NodePlatformFromStr(triple))
  /\ pc' = "platform"
  /\ UNCHANGED <<triple, config, out>>

SerializeTargetDetail ==
  /\ pc = "detail"
  /\ ret.ok
  /\ out' = TargetDetailSerialize(ret.val)
  /\ pc' = "detail_ser"
  /\ UNCHANGED <<triple, config, ret>>

SerializeTarget ==
  /\ pc = "target"
  /\ ret.ok
  /\ out' = TargetSerialize(ret.val)
  /\ pc' = "target_ser"
  /\ UNCHANGED <<triple, config, ret>>

SerializeNodePlatform ==
  /\ pc = "platform"
  /\ ret.ok
  /\ out' = NodePlatformSerialize(ret.val)
  /\ pc' = "platform_ser"
  /\ UNCHANGED <<triple, config, ret>>

SerializeGithubWorkflowConfig ==
  /\ pc = "start"
  /\ out' = GithubWorkflowConfigSerialize(config)
  /\ pc' = "config_ser"
  /\ UNCHANGED <<triple, config, ret>>

Next ==
  \/ CallTargetDetailFrom
  \/ CallTargetNew
  \/ CallNodePlatformFromStr
  \/ SerializeTargetDetail
  \/ SerializeTarget
  \/ SerializeNodePlatform
  \/ SerializeGithubWorkflowConfig

Spec == Init /\ [][Next]_vars

-----------------------------------------------------------------------------
(* Vocabulary of the properties: the dash-separated fields of a string and *)
(* the "&&"-separated commands of a setup string, stated by position       *)
(* rather than by scanning.                                                *)

DashAt(s) == {i \in 1..Len(s) : CharAt(s, i) = "-"}

NumFields(s) == Cardinality(DashAt(s)) + 1

NthDash(s, k) == CHOOSE d \in DashAt(s) : Cardinality({e \in DashAt(s) : e <= d}) = k

Field(s, k) ==
  LET lo == IF k = 1 THEN 1 ELSE NthDash(s, k - 1) + 1
      hi == IF k = NumFields(s) THEN Len(s) ELSE NthDash(s, k) - 1
  IN  SubSeq(s, lo, hi)

ArchNames ==
  {"x32", "x86_64", "i686", "armv7", "aarch64", "mips", "mipsel", "ppc", "ppc64",
   "s390", "s390x"}

\* A separator starts at an even offset inside a maximal run of '&' and has
\* a second '&' behind it.
AmpRunStart(s, i) == Min({j \in 1..i : \A k \in j..i : CharAt(s, k) = "&"})

SepAt(s) ==
  {i \in 1..(Len(s) - 1) :
     /\ CharAt(s, i) = "&"
     /\ CharAt(s, i + 1) = "&"
     /\ (i - AmpRunStart(s, i)) % 2 = 0}

NthSep(s, k) == CHOOSE d \in SepAt(s) : Cardinality({e \in SepAt(s) : e <= d}) = k

Stripped(x) ==
  LET IsWs(i) == CharAt(x, i) \in WhiteSpace
      ab == CHOOSE c \in (1..(Len(x) + 1)) \X (0..Len(x)) :
              /\ c[1] <= c[2] + 1
              /\ \A i \in 1..(c[1] - 1) : IsWs(i)
              /\ \A i \in (c[2] + 1)..Len(x) : IsWs(i)
              /\ c[1] <= c[2] => ~IsWs(c[1]) /\ ~IsWs(c[2])
  IN  SubSeq(x, ab[1], ab[2])

Commands(s) ==
  LET n == Cardinality(SepAt(s)) + 1
  IN  [k \in 1..n |->
         Stripped(SubSeq(s,
                         IF k = 1 THEN 1 ELSE NthSep(s, k - 1) + 2,
                         IF k = n THEN Len(s) ELSE NthSep(s, k) - 1))]

EntriesOf(m, key) == {i \in 1..Len(m) : m[i][1] = key}

AarchGnuSetup ==
  "sudo apt-get update && sudo apt-get install g++-aarch64-linux-gnu gcc-aarch64-linux-gnu -y"

-----------------------------------------------------------------------------
(* Properties.                                                             *)

\* C1: Target::new returns normally for each of the 13 supported triples,
\* and the Target it returns carries the input triple.
C1_SupportedTriplesResolve ==
  /\ Cardinality(Range(AVAILABLE_TARGETS)) = 13
  /\ (pc \in {"target", "target_ser"} /\ triple \in Range(AVAILABLE_TARGETS))
       => ret.ok /\ ret.val.triple = triple

C1_Witness ==
  /\ pc = "target"
  /\ triple = "armv7-linux-androideabi"
  /\ ret.ok
  /\ ret.val.triple = "armv7-linux-androideabi"

C3_SupportedTriplesConfigured ==
  /\ \A t \in Range(AVAILABLE_TARGETS) : t \in DOMAIN TARGET_CONFIG_MAP
  /\ (triple \in Range(AVAILABLE_TARGETS) /\ pc = "target")
       => (ret.ok => ret.val.github_workflow_config = TARGET_CONFIG_MAP[triple])
          /\ (~ret.ok => ret.kind # "unwrap")

C3_Witness ==
  /\ pc = "target"
  /\ triple = "aarch64-linux-android"
  /\ ret.ok
  /\ ret.val.github_workflow_config.host = "ubuntu-latest"

\* C4: for a triple of three or more fields with a recognized architecture,
\* abi is the fourth field if there is one and absent otherwise, and
\* platform_abi is "{platform}-{arch}-{abi}" or "{platform}-{arch}".
C4_AbiAndPlatformAbi ==
  (pc = "detail" /\ NumFields(triple) >= 3 /\ Field(triple, 1) \in ArchNames)
    => /\ ret.ok
       /\ ret.val.abi = (IF NumFields(triple) >= 4 THEN Some(Field(triple, 4)) ELSE None)
       /\ LET platform == NodePlatformDisplay(ret.val.platform)
              arch     == NodeArchDisplay(ret.val.arch)
          IN  ret.val.platform_abi =
                IF NumFields(triple) >= 4
                THEN platform \o "-" \o arch \o "-" \o Field(triple, 4)
                ELSE platform \o "-" \o arch
       /\ triple = "x86_64-apple-darwin" => ret.val.platform_abi = "darwin-x64"
       /\ triple = "aarch64-unknown-linux-musl" => ret.val.platform_abi = "linux-arm64-musl"
       /\ triple = "armv7-unknown-linux-gnueabihf"
            => ret.val.platform_abi = "linux-arm-gnueabihf"

C4_Witness ==
  /\ pc = "detail"
  /\ triple = "aarch64-unknown-linux-musl"
  /\ ret.ok
  /\ ret.val.abi = Some("musl")
  /\ ret.val.platform_abi = "linux-arm64-musl"

\* C5: a config with a setup string serializes `setup` as the trimmed
\* "&&"-separated commands in order, and a config without one emits no
\* `setup` key.
C5_SetupSplitAndTrimmed ==
  /\ pc = "config_ser" =>
       /\ IsSome(config.setup) =>
            /\ Cardinality(EntriesOf(out, "setup")) = 1
            /\ \A i \in EntriesOf(out, "setup") : out[i][2] = Commands(Unwrap(config.setup))
       /\ ~IsSome(config.setup) => EntriesOf(out, "setup") = {}
       /\ config.setup = Some(AarchGnuSetup) =>
            \A i \in EntriesOf(out, "setup") :
              out[i][2] = << "sudo apt-get update",
                             "sudo apt-get install g++-aarch64-linux-gnu gcc-aarch64-linux-gnu -y" >>
  /\ pc = "target_ser" =>
       LET cfg == ret.val.github_workflow_config
           ser == out.github_workflow_config
       IN  /\ IsSome(cfg.setup) =>
                /\ Cardinality(EntriesOf(ser, "setup")) = 1
                /\ \A i \in EntriesOf(ser, "setup") : ser[i][2] = Commands(Unwrap(cfg.setup))
           /\ ~IsSome(cfg.setup) => EntriesOf(ser, "setup") = {}

C5_Witness ==
  /\ pc = "config_ser"
  /\ config.setup = Some(AarchGnuSetup)
  /\ \E i \in EntriesOf(out, "setup") :
       out[i][2] = << "sudo apt-get update",
                      "sudo apt-get install g++-aarch64-linux-gnu gcc-aarch64-linux-gnu -y" >>

\* C6 as stated: an input whose first field is no architecture name ends
\* in the abort that names that field.
C6_AbortNamesField ==
  (pc \in {"detail", "target"} /\ Field(triple, 1) \notin ArchNames)
    => /\ ~ret.ok
       /\ ret.kind = "explicit"
       /\ ret.msg = "unsupported cpu arch " \o Field(triple, 1)

\* C6 amended: an input whose first field is no architecture name always
\* ends in an abort and never in a TargetDetail or Target; the abort names
\* that field when the input has three or more fields, and is the index
\* fault of reading field 2 when it has fewer.
C6_AbortOnUnknownArch ==
  (pc \in {"detail", "target"} /\ Field(triple, 1) \notin ArchNames)
    => /\ ~ret.ok
       /\ NumFields(triple) >= 3 =>
            ret.kind = "explicit" /\ ret.msg = "unsupported cpu arch " \o Field(triple, 1)
       /\ NumFields(triple) < 3 => ret.kind = "index"

C6_Witness ==
  /\ pc = "target"
  /\ triple = "arm64-apple-darwin"
  /\ ~ret.ok
  /\ ret.msg = "unsupported cpu arch arm64"

\* C7: Target::new aborts for every triple that is not an exact key of the
\* config table, also when the triple parses into a TargetDetail.
C7_UnregisteredTripleAborts ==
  (pc = "target" /\ triple \notin DOMAIN TARGET_CONFIG_MAP) => ~ret.ok

C7_Witness ==
  /\ pc = "target"
  /\ triple = "x86_64-unknown-linux"
  /\ TargetDetailFrom(triple).ok
  /\ ~ret.ok
  /\ ret.kind = "unwrap"

\* C8: NodePlatform::from_str never fails: the four recognized names give
\* darwin, freebsd, openbsd and win32, any other s gives unknown(s), and
\* unknown(s) displays and serializes as s.
C8_PlatformNeverFails ==
  /\ pc \in {"platform", "platform_ser"} =>
       /\ ret.ok
       /\ ret.val = (CASE triple = "darwin"  -> <<"darwin">>
                       [] triple = "freebsd" -> <<"freebsd">>
                       [] triple = "openbsd" -> <<"openbsd">>
                       [] triple = "windows" -> <<"win32">>
                       [] OTHER              -> <<"unknown", triple>>)
       /\ ret.val[1] = "unknown" => NodePlatformDisplay(ret.val) = triple
  /\ (pc = "platform_ser" /\ ret.val[1] = "unknown") => out = triple
  /\ (pc = "detail" /\ NumFields(triple) >= 3 /\ ret.ok
        /\ Field(triple, 3) \notin {"darwin", "freebsd", "openbsd", "windows"})
       => ret.val.platform = <<"unknown", Field(triple, 3)>>
  /\ (pc = "detail_ser" /\ ret.val.platform[1] = "unknown")
       => out.platform = Field(triple, 3)

C8_Witness ==
  /\ pc = "platform_ser"
  /\ triple = "linux"
  /\ ret.val = <<"unknown", "linux">>
  /\ out = "linux"

\* C9: DEFAULT_TARGETS is exactly the three x86_64 desktop triples, all of
\* them supported, and some supported triple is not a default.
C9_DefaultTargets ==
  /\ Range(DEFAULT_TARGETS) =
       {"x86_64-apple-darwin", "x86_64-pc-windows-msvc", "x86_64-unknown-linux-gnu"}
  /\ Len(DEFAULT_TARGETS) = 3
  /\ Range(DEFAULT_TARGETS) \subseteq Range(AVAILABLE_TARGETS)
  /\ \E t \in Range(AVAILABLE_TARGETS) : t \notin Range(DEFAULT_TARGETS)
  /\ (pc = "target" /\ triple \in Range(DEFAULT_TARGETS)) => ret.ok

C9_Witness ==
  /\ pc = "target"
  /\ triple \in Range(DEFAULT_TARGETS)
  /\ ret.ok
  /\ ret.val.triple = "x86_64-unknown-linux-gnu"

\* C10: TargetDetail::from aborts on every input of fewer than three
\* fields, the two-field one included, whatever its architecture field.
C10_FewerThanThreeFieldsAbort ==
  (pc = "detail" /\ NumFields(triple) < 3) => ~ret.ok /\ ret.kind = "index"

C10_Witness ==
  /\ pc = "detail"
  /\ triple = "x86_64-apple"
  /\ ~ret.ok
  /\ ret.kind = "index"

====
